---- MODULE Spec2Model ----
(***************************************************************************)
(* A model of kenchi's outlier detectors: the reconstruction detector PCA  *)
(* (outlier_detection/reconstruction_based.py) and the mixture detector    *)
(* GaussianMixtureOutlierDetector (outlier_detection/mixture_distns.py).   *)
(*                                                                         *)
(* One detector object `det` is constructed, fitted, re-fitted and scored. *)
(* Numbers are exact rationals <<num, den>>, den > 0, in lowest terms.     *)
(* Samples are rows <<v, 0>> of two features: the second feature is always *)
(* zero, so Euclidean norms and principal axes are rational.               *)
(***************************************************************************)
EXTENDS Integers, Sequences, FiniteSets, TLC

\* ---------------------------------------------------------------- bounds
\* Most rows of a matrix handed to fit.
MaxRows == 3
\* Most rows of a matrix handed to a scoring call that is not the training matrix.
MaxScoreRows == 1
\* Period of the modelled pseudo random generators.
RngPeriod == 2
\* The count of successful fits is kept up to this many.
MaxFitCount == 2

\* ------------------------------------------------------------ optionals
\* An attribute that is not set is <<>>; one that is set to x is <<x>>.
None == <<>>
Some(x) == <<x>>
IsSet(o) == o # <<>>
Get(o) == o[1]
\* A sequence given as a function on 1..n, as a tuple.
AsSeq(f) == f \o <<>>

\* ------------------------------------------------------------ rationals
Abs(i) == IF i < 0 THEN -i ELSE i

RECURSIVE GCD(_, _)
GCD(a, b) == IF b = 0 THEN a ELSE GCD(b, a % b)

Q(n, d) ==
    LET g == GCD(Abs(n), d)
    IN  <<n \div g, d \div g>>

QInt(i) == <<i, 1>>
QAdd(a, b) == Q(a[1] * b[2] + b[1] * a[2], a[2] * b[2])
QSub(a, b) == Q(a[1] * b[2] - b[1] * a[2], a[2] * b[2])
QMul(a, b) == Q(a[1] * b[1], a[2] * b[2])
QDivInt(a, i) == Q(a[1], a[2] * i)
QLess(a, b) == a[1] * b[2] < b[1] * a[2]
QLeq(a, b) == a[1] * b[2] <= b[1] * a[2]
QAbs(a) == <<Abs(a[1]), a[2]>>
QFloor(a) == a[1] \div a[2]

\* The exact square root of a rational that is a perfect square.
ISqrt(k) == CHOOSE r \in 0..k : r * r = k
QSqrt(a) == <<ISqrt(a[1]), ISqrt(a[2])>>

RECURSIVE QSum(_)
QSum(s) == IF s = <<>> THEN QInt(0) ELSE QAdd(s[1], QSum(Tail(s)))

\* ------------------------------------------------------------- inputs
Vals == {0, 1, 3}
Rows == {<<v, 0>> : v \in Vals}
\* The matrices handed to the detectors: up to MaxRows rows, in nondecreasing
\* order of the first feature; <<>> is an array without samples.
Matrices ==
    {m \in UNION {[1..n -> Rows] : n \in 0..MaxRows} :
        \A i \in 1..(Len(m) - 1) : m[i][1] <= m[i + 1][1]}
\* False positive rates a caller may pass: -1/4, 0, 1/4, 1, 3/2.
Fprs == {<<-1, 4>>, <<0, 1>>, <<1, 4>>, <<1, 1>>, <<3, 2>>}

\* ------------------------------------------------------- numpy, sklearn
\* np.sort of a vector of scores (insertion sort; the order is total).
RECURSIVE Insert(_, _)
Insert(x, s) ==
    IF s = <<>> THEN <<x>>
    ELSE IF QLeq(x, s[1]) THEN <<x>> \o s
    ELSE <<s[1]>> \o Insert(x, Tail(s))

RECURSIVE Sort(_)
Sort(s) == IF s = <<>> THEN <<>> ELSE Insert(s[1], Sort(Tail(s)))

\* np.percentile(scores, q) accepts q = 100 * p only for p in [0, 1].
PercentileValid(p) == QLeq(QInt(0), p) /\ QLeq(p, QInt(1))

\* A percentile taken at 100 * (1 - p) instead of 100 * p.
Percentile_complement(scores, p) ==
    LET s  == Sort(scores)
        n  == Len(s)
        h  == QMul(QInt(n - 1), QSub(QInt(1), p))
        lo == QFloor(h)
        fr == QSub(h, QInt(lo))
    IN  IF fr = QInt(0) THEN s[lo + 1]
        ELSE QAdd(s[lo + 1], QMul(fr, QSub(s[lo + 2], s[lo + 1])))

\* np.percentile(scores, 100 * p), linear interpolation between the two
\* nearest order statistics: virtual index h = (n - 1) * p, counted from 0.
Percentile(scores, p) ==
    LET s  == Sort(scores)
        n  == Len(s)
        h  == QMul(QInt(n - 1), p)
        lo == QFloor(h)
        fr == QSub(h, QInt(lo))
    IN  IF fr = QInt(0) THEN s[lo + 1]
        ELSE QAdd(s[lo + 1], QMul(fr, QSub(s[lo + 2], s[lo + 1])))

\* Raised exceptions are named by their class; NoError is a normal return.
NoError == ""

\* sklearn.utils.check_array(X): an array with no sample is rejected.
check_array(X) == IF Len(X) < 1 THEN "ValueError" ELSE NoError

QRow(x) == [j \in 1..Len(x) |-> QInt(x[j])]
QSq(a) == QMul(a, a)
\* Squared Euclidean distance between two rational vectors.
SqDist(a, b) == QSum([j \in 1..Len(a) |-> QSq(QSub(a[j], b[j]))])
\* Per-feature mean of the rows of X.
ColMean(X) ==
    AsSeq([j \in 1..2 |->
              QDivInt(QSum([i \in 1..Len(X) |-> QInt(X[i][j])]), Len(X))])
\* Per-feature (biased) variance of the rows of X.
ColVar(X) ==
    LET m == ColMean(X)
    IN  AsSeq([j \in 1..2 |->
            QDivInt(QSum([i \in 1..Len(X) |-> QSq(QSub(QInt(X[i][j]), m[j]))]),
                    Len(X))])
Dot(a, b) == QSum([j \in 1..Len(a) |-> QMul(a[j], b[j])])
Min2(a, b) == IF a <= b THEN a ELSE b

\* ---------------------------------------- sklearn.decomposition.PCA
\* The fitted attributes of the wrapped decomposition.PCA are mean_ and
\* components_. The samples lie on the axis of the first feature, so the
\* principal axes are the coordinate axes; components_ keeps the leading
\* n_components of them.
Axes == <<  <<QInt(1), QInt(0)>>,  <<QInt(0), QInt(1)>>  >>

sk_PCA_fit(self, X) ==
    IF self.n_components > Min2(Len(X), 2)
    THEN [raised |-> "ValueError", self |-> self]
    ELSE [raised |-> NoError,
          self   |-> [self EXCEPT !.pca =
                        Some([mean_       |-> ColMean(X),
                              components_ |-> SubSeq(Axes, 1, self.n_components)])]]

\* transform: check_is_fitted, then check_array, then (X - mean_) . components_^T
sk_PCA_transform(self, X) ==
    IF ~IsSet(self.pca) THEN [raised |-> "NotFittedError", value |-> <<>>]
    ELSE IF check_array(X) # NoError THEN [raised |-> check_array(X), value |-> <<>>]
    ELSE LET p == Get(self.pca)
         IN  [raised |-> NoError,
              value  |-> AsSeq([i \in 1..Len(X) |->
                            AsSeq([c \in 1..Len(p.components_) |->
                                Dot([j \in 1..2 |-> QSub(QInt(X[i][j]), p.mean_[j])],
                                    p.components_[c])])])]

\* An inverse_transform that does not add mean_ back.
sk_PCA_inverse_transform_uncentred(self, Z) ==
    LET p == Get(self.pca)
    IN  AsSeq([i \in 1..Len(Z) |->
            AsSeq([j \in 1..2 |->
                QSum([c \in 1..Len(p.components_) |->
                         QMul(Z[i][c], p.components_[c][j])])])])

\* inverse_transform: Z . components_ + mean_
sk_PCA_inverse_transform(self, Z) ==
    LET p == Get(self.pca)
    IN  AsSeq([i \in 1..Len(Z) |->
            AsSeq([j \in 1..2 |->
                QAdd(QSum([c \in 1..Len(p.components_) |->
                              QMul(Z[i][c], p.components_[c][j])]),
                     p.mean_[j])])])

\* score: check_is_fitted, then check_array, then the mean log-likelihood,
\* whose value (a logarithm) is not represented.
sk_PCA_score(self, X) ==
    IF ~IsSet(self.pca) THEN "NotFittedError"
    ELSE check_array(X)

\* ------------------------------------ sklearn.mixture.GaussianMixture
\* fit(X): n_samples < n_components is rejected before anything is set.
\* Otherwise the k-means initialisation, seeded by one draw of the random
\* source, labels the rows and the fitted weights, means and covariances
\* are those of the labelled groups (EM started from a hard assignment).
\* Squared Euclidean distance between two rows of integers.
RowSqDist(a, b) ==
    (a[1] - b[1]) * (a[1] - b[1]) + (a[2] - b[2]) * (a[2] - b[2])

\* The row of X farthest from row c, the first of them among equals.
FarthestFrom(X, c) ==
    LET far(i) == \A k \in 1..Len(X) : RowSqDist(X[k], c) <= RowSqDist(X[i], c)
        best   == CHOOSE i \in 1..Len(X) :
                     far(i) /\ \A k \in 1..(i - 1) : ~far(k)
    IN  X[best]

RECURSIVE SelectRows(_, _)
SelectRows(X, keep) ==
    IF X = <<>> THEN <<>>
    ELSE (IF keep[1] THEN <<X[1]>> ELSE <<>>) \o SelectRows(Tail(X), Tail(keep))

Component(X, G) ==
    IF G = <<>>
    THEN [weight |-> QInt(0), mean |-> <<QInt(0), QInt(0)>>,
          cov |-> <<QInt(0), QInt(0)>>]
    ELSE [weight |-> Q(Len(G), Len(X)), mean |-> ColMean(G), cov |-> ColVar(G)]

sk_GM_estimate(X, K, draw) ==
    IF K = 1
    THEN <<Component(X, X)>>
    ELSE LET c1 == X[(draw % Len(X)) + 1]
             c2 == FarthestFrom(X, c1)
             first == [i \in 1..Len(X) |->
                          RowSqDist(X[i], c1) <= RowSqDist(X[i], c2)]
             rest == [i \in 1..Len(X) |-> ~first[i]]
         IN  <<Component(X, SelectRows(X, first)),
               Component(X, SelectRows(X, rest))>>

sk_GM_fit(self, X, draw) ==
    IF Len(X) < self.n_components
    THEN [raised |-> "ValueError", self |-> self]
    ELSE LET comps == sk_GM_estimate(X, self.n_components, draw)
         IN  [raised |-> NoError,
              self   |-> [self EXCEPT !.gm =
                            Some([weights_     |-> AsSeq([k \in 1..Len(comps) |-> comps[k].weight]),
                                  means_       |-> AsSeq([k \in 1..Len(comps) |-> comps[k].mean]),
                                  covariances_ |-> AsSeq([k \in 1..Len(comps) |-> comps[k].cov])])]]

\* ------------------------------------------------------- the detectors
\* A detector object. cls is "none" until a constructor has returned.
\* X_, pca, gm and threshold_ are attributes that exist only once assigned.
NoDetector ==
    [cls |-> "none", fpr |-> QInt(0), n_components |-> 0, random_state |-> None,
     X_ |-> None, pca |-> None, gm |-> None, threshold_ |-> None]

\* The decorators of kenchi.utils wrap fit and anomaly_score to carry pandas
\* indices; on plain arrays they hand the wrapped method's outcome through.
assign_info_on_pandas_obj(r) == r
construct_pandas_obj(r) == r

\* ---- PCA (reconstruction_based.py)
\* A check_params that also rejects the boundary values 0 and 1.
PCA_check_params_open(self) ==
    IF QLeq(self.fpr, QInt(0)) \/ QLeq(QInt(1), self.fpr)
    THEN "ValueError" ELSE NoError

\* check_params: the error it raises, NoError when the parameters are valid.
PCA_check_params(self) ==
    IF QLess(self.fpr, QInt(0)) \/ QLess(QInt(1), self.fpr)
    THEN "ValueError" ELSE NoError

\* __init__(fpr, **kwargs): assigns fpr and the wrapped estimator, then
\* check_params; an exception leaves the caller without an object.
PCA_init(fpr, n_components) ==
    LET self == [NoDetector EXCEPT !.cls = "PCA", !.fpr = fpr,
                                   !.n_components = n_components]
    IN  IF PCA_check_params(self) # NoError
        THEN [raised |-> PCA_check_params(self), self |-> NoDetector]
        ELSE [raised |-> NoError, self |-> self]

\* reconstruct(X) = self._pca.inverse_transform(self._pca.transform(X))
PCA_reconstruct(self, X) ==
    LET t == sk_PCA_transform(self, X)
    IN  IF t.raised # NoError THEN t
        ELSE [raised |-> NoError, value |-> sk_PCA_inverse_transform(self, t.value)]

\* anomaly_score(X=None): X defaults to self.X_; the score of a row is the
\* Euclidean norm of the row minus its reconstruction.
PCA_anomaly_score(self, X) ==
    IF X = None /\ ~IsSet(self.X_)
    THEN [raised |-> "AttributeError", value |-> <<>>]
    ELSE LET A == IF X = None THEN Get(self.X_) ELSE Get(X)
             r == PCA_reconstruct(self, A)
         IN  IF r.raised # NoError THEN r
             ELSE [raised |-> NoError,
                   value  |-> AsSeq([i \in 1..Len(A) |->
                                  QSqrt(SqDist(QRow(A[i]), r.value[i]))])]

\* score(X, y=None) = self._pca.score(X)
PCA_score(self, X) == sk_PCA_score(self, X)

\* An anomaly_score that keeps the matrix it was given as X_.
PCA_anomaly_score_self_storing(self, X) ==
    IF X = None THEN self ELSE [self EXCEPT !.X_ = X]

\* The instance after anomaly_score, reconstruct and score: none of them
\* assigns an attribute of self (X = self.X_ binds a local name), and numpy
\* computes X - X_rec, the squares and the sums into new arrays.
PCA_anomaly_score_self(self, X) == self
PCA_reconstruct_self(self, X) == self
PCA_score_self(self, X) == self

\* A fit that calibrates the threshold only the first time.
PCA_fit_calibrates_once(self, X, y) ==
    IF check_array(X) # NoError
    THEN [raised |-> check_array(X), self |-> self, value |-> "none"]
    ELSE
    LET s1 == [self EXCEPT !.X_ = Some(X)]
        f  == sk_PCA_fit(s1, s1.X_[1])
        s2 == f.self
        a  == PCA_anomaly_score(s2, None)
        q  == QSub(QInt(1), s2.fpr)
    IN  IF f.raised # NoError
        THEN [raised |-> f.raised, self |-> s1, value |-> "none"]
        ELSE IF a.raised # NoError
        THEN [raised |-> a.raised, self |-> s2, value |-> "none"]
        ELSE IF ~PercentileValid(q)
        THEN [raised |-> "ValueError", self |-> s2, value |-> "none"]
        ELSE [raised |-> NoError,
              self   |-> IF IsSet(s2.threshold_) THEN s2
                         ELSE [s2 EXCEPT !.threshold_ = Some(Percentile(a.value, q))],
              value  |-> "self"]

\* A fit that returns a copy of the detector instead of the detector.
PCA_fit_on_copy(self, X, y) ==
    IF check_array(X) # NoError
    THEN [raised |-> check_array(X), self |-> self, value |-> "none"]
    ELSE
    LET s1 == [self EXCEPT !.X_ = Some(X)]
        f  == sk_PCA_fit(s1, s1.X_[1])
        s2 == f.self
        a  == PCA_anomaly_score(s2, None)
        q  == QSub(QInt(1), s2.fpr)
    IN  IF f.raised # NoError
        THEN [raised |-> f.raised, self |-> s1, value |-> "none"]
        ELSE IF a.raised # NoError
        THEN [raised |-> a.raised, self |-> s2, value |-> "none"]
        ELSE IF ~PercentileValid(q)
        THEN [raised |-> "ValueError", self |-> s2, value |-> "none"]
        ELSE [raised |-> NoError,
              self   |-> [s2 EXCEPT !.threshold_ = Some(Percentile(a.value, q))],
              value  |-> "copy"]

\* fit(X, y=None): the statements in order; an exception leaves self as
\* the statements before it made it.
PCA_fit(self, X, y) ==
    IF check_array(X) # NoError
    THEN [raised |-> check_array(X), self |-> self, value |-> "none"]
    ELSE
    LET s1 == [self EXCEPT !.X_ = Some(X)]
        f  == sk_PCA_fit(s1, s1.X_[1])
        s2 == f.self
        a  == PCA_anomaly_score(s2, None)
        q  == QSub(QInt(1), s2.fpr)
    IN  IF f.raised # NoError
        THEN [raised |-> f.raised, self |-> s1, value |-> "none"]
        ELSE IF a.raised # NoError
        THEN [raised |-> a.raised, self |-> s2, value |-> "none"]
        ELSE IF ~PercentileValid(q)
        THEN [raised |-> "ValueError", self |-> s2, value |-> "none"]
        ELSE [raised |-> NoError,
              self   |-> [s2 EXCEPT !.threshold_ = Some(Percentile(a.value, q))],
              value  |-> "self"]

\* ---- GaussianMixtureOutlierDetector (mixture_distns.py)
\* __init__: hands the mixture's parameters to GaussianMixture and assigns
\* fpr; nothing is checked.
GMM_init(fpr, n_components, random_state) ==
    [raised |-> NoError,
     self   |-> [NoDetector EXCEPT !.cls = "GaussianMixtureOutlierDetector",
                                   !.fpr = fpr, !.n_components = n_components,
                                   !.random_state = random_state]]

\* The score of one row under the fitted mixture, -log sum_k w_k N(x | mean_k,
\* cov_k), in the units in which it is the squared distance to the nearest
\* component of positive weight: for one component this is the score up to
\* an increasing affine map fixed by the fitted covariance, which percentiles
\* and comparisons commute with.
MixtureScore(gm, x) ==
    LET live == {k \in 1..Len(gm.weights_) : QLess(QInt(0), gm.weights_[k])}
        d    == AsSeq([k \in 1..Len(gm.means_) |-> SqDist(QRow(x), gm.means_[k])])
        k0   == CHOOSE k \in live : \A l \in live : QLeq(d[k], d[l])
    IN  d[k0]

\* anomaly_score(X, y=None): check_is_fitted, check_array, then the scores.
GMM_anomaly_score(self, X) ==
    construct_pandas_obj(
        IF ~IsSet(self.gm) THEN [raised |-> "NotFittedError", value |-> <<>>]
        ELSE IF check_array(X) # NoError
        THEN [raised |-> check_array(X), value |-> <<>>]
        ELSE [raised |-> NoError,
              value  |-> AsSeq([i \in 1..Len(X) |->
                                   MixtureScore(Get(self.gm), X[i])])])

\* The instance after anomaly_score: no attribute is assigned, and the
\* weights, means and covariances are only read.
GMM_anomaly_score_self(self, X) == self

\* fit(X, y=None); draw is what the random source of the mixture yields.
GMM_fit(self, X, y, draw) ==
    assign_info_on_pandas_obj(
        IF check_array(X) # NoError
        THEN [raised |-> check_array(X), self |-> self, value |-> "none"]
        ELSE
        LET f  == sk_GM_fit(self, X, draw)
            s1 == f.self
            a  == GMM_anomaly_score(s1, X)
            q  == QSub(QInt(1), s1.fpr)
        IN  IF f.raised # NoError
            THEN [raised |-> f.raised, self |-> self, value |-> "none"]
            ELSE IF a.raised # NoError
            THEN [raised |-> a.raised, self |-> s1, value |-> "none"]
            ELSE IF ~PercentileValid(q)
            THEN [raised |-> "ValueError", self |-> s1, value |-> "none"]
            ELSE [raised |-> NoError,
                  self   |-> [s1 EXCEPT !.threshold_ = Some(Percentile(a.value, q))],
                  value  |-> "self"])

\* ------------------------------------------------------------ the state
\* det   the detector object under test
\* twin  a second GaussianMixtureOutlierDetector, built with det's constructor
\*       arguments and fitted; it lives until the call that made it returns
\* ret   the outcome of the call in progress: the method, the exception it
\*       raised, the object it returned, the array it returned, and the fpr
\*       (a constructor) or the y (fit) it was given; NoRet between calls
\* hist  history of det's fit calls: how many succeeded (up to MaxFitCount),
\*       whether the last one did, and the matrix of the most recent
\*       successful one
\* em    a fit of GaussianMixtureOutlierDetector seen step by step: the
\*       position in GaussianMixture.fit and the values it holds there
\* load  a call of a dataset loader: the files it reads and what it returned
VARIABLES det, twin, ret, hist, em, load

vars == <<det, twin, ret, hist, em, load>>

NoHist == [fits |-> 0, lastOK |-> FALSE, train |-> None]
NoRet ==
    [op |-> "", raised |-> NoError, value |-> "none", out |-> <<>>,
     fpr |-> None, y |-> None]

\* Inputs of the calls.
PCA_NComponents == {0, 2}
GMM_NComponents == {1, 2}
RandomStates == {None, Some(0), Some(1)}
Ys == {None, Some(<<1>>)}
TrainedOn == IF IsSet(hist.train) THEN {Get(hist.train)} ELSE {}
ScoreInputs == {m \in Matrices : Len(m) <= MaxScoreRows} \cup TrainedOn

\* check_random_state(random_state): None is the process-global generator
\* np.random, whose state g is whatever the rest of the process left it in;
\* an integer seeds a fresh generator at every fit.
GlobalStates(self) == IF self.random_state = None THEN 0..(RngPeriod - 1) ELSE {0}
DrawOf(self, g) ==
    IF self.random_state = None THEN g ELSE Get(self.random_state) % RngPeriod

RecordFit(h, r, X) ==
    IF r.raised = NoError
    THEN [fits |-> IF h.fits < MaxFitCount THEN h.fits + 1 ELSE h.fits,
          lastOK |-> TRUE, train |-> Some(X)]
    ELSE [h EXCEPT !.lastOK = FALSE]

Idle == ret = NoRet

\* No fit is being followed step by step; no loader has been called.
NoEM == [pc |-> "none"]
NoLoad == [op |-> "none"]

Init ==
    /\ det = NoDetector
    /\ twin = NoDetector
    /\ ret = NoRet
    /\ hist = NoHist
    /\ em = NoEM
    /\ load = NoLoad

\* ---------------------------------------------------------- the actions
NewPCA ==
    \E fpr \in Fprs, k \in PCA_NComponents :
        /\ Idle
        /\ det.cls = "none"
        /\ \E r \in {PCA_init(fpr, k)} :
               /\ det' = r.self
               /\ ret' = [NoRet EXCEPT !.op = "PCA", !.raised = r.raised,
                                       !.fpr = Some(fpr)]
        /\ UNCHANGED <<twin, hist, em, load>>

NewGMM ==
    \E fpr \in Fprs, k \in GMM_NComponents, rs \in RandomStates :
        /\ Idle
        /\ det.cls = "none"
        /\ \E r \in {GMM_init(fpr, k, rs)} :
               /\ det' = r.self
               /\ ret' = [NoRet EXCEPT !.op = "GaussianMixtureOutlierDetector",
                                       !.raised = r.raised, !.fpr = Some(fpr)]
        /\ UNCHANGED <<twin, hist, em, load>>

FitPCA ==
    \E X \in Matrices, y \in Ys :
        /\ Idle
        /\ det.cls = "PCA"
        /\ \E r \in {PCA_fit(det, X, y)} :
               /\ det' = r.self
               /\ ret' = [NoRet EXCEPT !.op = "fit", !.raised = r.raised,
                                       !.value = r.value, !.y = y]
               /\ hist' = RecordFit(hist, r, X)
        /\ UNCHANGED <<twin, em, load>>

FitGMM ==
    \E X \in Matrices, y \in Ys, g \in GlobalStates(det) :
        /\ Idle
        /\ det.cls = "GaussianMixtureOutlierDetector"
        /\ \E r \in {GMM_fit(det, X, y, DrawOf(det, g))} :
               /\ det' = r.self
               /\ ret' = [NoRet EXCEPT !.op = "fit", !.raised = r.raised,
                                       !.value = r.value, !.y = y]
               /\ hist' = RecordFit(hist, r, X)
        /\ UNCHANGED <<twin, em, load>>

\* anomaly_score(X) and anomaly_score() of PCA.
AnomalyScorePCA ==
    \E X \in {None} \cup {Some(m) : m \in ScoreInputs} :
        /\ Idle
        /\ det.cls = "PCA"
        /\ \E r \in {PCA_anomaly_score(det, X)} :
               ret' = [NoRet EXCEPT !.op = IF X = None THEN "anomaly_score()"
                                           ELSE "anomaly_score",
                                    !.raised = r.raised, !.out = r.value]
        /\ det' = PCA_anomaly_score_self(det, X)
        /\ UNCHANGED <<twin, hist, em, load>>

ReconstructPCA ==
    \E X \in ScoreInputs :
        /\ Idle
        /\ det.cls = "PCA"
        /\ \E r \in {PCA_reconstruct(det, X)} :
               ret' = [NoRet EXCEPT !.op = "reconstruct", !.raised = r.raised,
                                    !.out = r.value]
        /\ det' = PCA_reconstruct_self(det, X)
        /\ UNCHANGED <<twin, hist, em, load>>

ScorePCA ==
    \E X \in ScoreInputs :
        /\ Idle
        /\ det.cls = "PCA"
        /\ ret' = [NoRet EXCEPT !.op = "score", !.raised = PCA_score(det, X)]
        /\ det' = PCA_score_self(det, X)
        /\ UNCHANGED <<twin, hist, em, load>>

AnomalyScoreGMM ==
    \E X \in ScoreInputs :
        /\ Idle
        /\ det.cls = "GaussianMixtureOutlierDetector"
        /\ \E r \in {GMM_anomaly_score(det, X)} :
               ret' = [NoRet EXCEPT !.op = "anomaly_score", !.raised = r.raised,
                                    !.out = r.value]
        /\ det' = GMM_anomaly_score_self(det, X)
        /\ UNCHANGED <<twin, hist, em, load>>

\* A second detector is built with det's constructor arguments and fitted on
\* the matrix of det's last fit, which succeeded.
FitTwin ==
    \E g \in GlobalStates(det) :
        /\ Idle
        /\ det.cls = "GaussianMixtureOutlierDetector"
        /\ hist.lastOK
        /\ \E c \in {GMM_init(det.fpr, det.n_components, det.random_state)} :
           \E r \in {GMM_fit(c.self, Get(hist.train), None, DrawOf(c.self, g))} :
               /\ twin' = r.self
               /\ ret' = [NoRet EXCEPT !.op = "twin.fit", !.raised = r.raised,
                                       !.value = r.value]
        /\ UNCHANGED <<det, hist, em, load>>

\* The caller takes the outcome of the call; the twin goes out of scope.
Return ==
    /\ ~Idle
    /\ ret' = NoRet
    /\ twin' = NoDetector
    /\ UNCHANGED <<det, hist, em, load>>

Next ==
    \/ NewPCA
    \/ NewGMM
    \/ FitPCA
    \/ FitGMM
    \/ AnomalyScorePCA
    \/ ReconstructPCA
    \/ ScorePCA
    \/ AnomalyScoreGMM
    \/ FitTwin
    \/ Return

Spec == Init /\ [][Next]_vars

\* ------------------------------------------------------------ the claims
IsPCA == det.cls = "PCA"
IsGMM == det.cls = "GaussianMixtureOutlierDetector"
EverFitted == hist.fits > 0
InUnitInterval(p) == QLeq(QInt(0), p) /\ QLeq(p, QInt(1))
Unfitted(self) ==
    /\ self.X_ = None
    /\ self.pca = None
    /\ self.gm = None
    /\ self.threshold_ = None

\* C1: anomaly_score of GaussianMixtureOutlierDetector raises the not-fitted
\* error whenever no fit of the instance has ever succeeded, and never raises
\* it once a fit has succeeded.
C1_NotFittedExactlyBeforeFirstFit ==
    (IsGMM /\ ret.op = "anomaly_score") =>
        /\ ~EverFitted => ret.raised = "NotFittedError"
        /\ EverFitted => ret.raised # "NotFittedError"

\* C2: on a PCA that was never successfully fit, anomaly_score(X),
\* anomaly_score(), reconstruct(X) and score(X) each fail with the not-fitted
\* error and with no other error.
C2_UnfittedPCARaisesNotFitted ==
    (/\ IsPCA
     /\ ~EverFitted
     /\ ret.op \in {"anomaly_score", "anomaly_score()", "reconstruct", "score"})
        => ret.raised = "NotFittedError"

\* C3: a fit that raises on a detector that was never fitted leaves it
\* unfitted: no fitted parameter, no X_ and no threshold_ is set.
C3_FailedFitLeavesUnfitted ==
    (ret.op = "fit" /\ ret.raised # NoError /\ ~EverFitted) => Unfitted(det)

\* C5: constructing PCA raises ValueError exactly when fpr < 0 or fpr > 1, at
\* construction; with fpr in [0, 1], 0 and 1 included, it yields an unfitted
\* PCA holding that fpr.
C5_PCAConstructorChecksFpr ==
    ret.op = "PCA" =>
        /\ ~InUnitInterval(Get(ret.fpr)) =>
              (ret.raised = "ValueError" /\ det = NoDetector)
        /\ InUnitInterval(Get(ret.fpr)) =>
              /\ ret.raised = NoError
              /\ IsPCA
              /\ det.fpr = Get(ret.fpr)
              /\ Unfitted(det)

\* C5 witness: PCA(fpr = 3/2) has raised ValueError.
C5_Witness ==
    ret.op = "PCA" /\ ret.fpr = Some(<<3, 2>>) /\ ret.raised = "ValueError"

\* C6: constructing GaussianMixtureOutlierDetector with a false positive rate
\* outside [0, 1] fails at construction with ValueError.
C6_GMMConstructorChecksFpr ==
    (ret.op = "GaussianMixtureOutlierDetector" /\ ~InUnitInterval(Get(ret.fpr)))
        => ret.raised = "ValueError"

\* ---- the state a successful fit should leave
TrainX == Get(hist.train)
\* The scores the fitted parameters of det give the matrix of its last
\* successful fit.
TrainScores ==
    IF IsPCA THEN PCA_anomaly_score(det, Some(TrainX)).value
    ELSE GMM_anomaly_score(det, TrainX).value
OutlierCount ==
    Cardinality({i \in 1..Len(TrainScores) :
                    QLess(Get(det.threshold_), TrainScores[i])})
PairwiseDistinct(s) ==
    \A i \in 1..Len(s), j \in 1..Len(s) : i # j => s[i] # s[j]

\* C4: whenever the last fit call on det succeeded, X_, the fitted parameters
\* and threshold_ are those of that fit: the parameters are estimated from its
\* matrix, and threshold_ is the 100 * (1 - fpr) percentile of the scores the
\* fitted parameters give that matrix.
C4_StateIsThatOfLastFit ==
    hist.lastOK =>
        /\ det.threshold_ =
              Some(Percentile(TrainScores, QSub(QInt(1), det.fpr)))
        /\ IsPCA =>
              /\ det.X_ = hist.train
              /\ det.gm = None
              /\ det.pca = Some([mean_       |-> ColMean(TrainX),
                                 components_ |-> SubSeq(Axes, 1, det.n_components)])
        /\ IsGMM =>
              /\ det.X_ = None
              /\ det.pca = None
              /\ \E draw \in 0..(RngPeriod - 1) :
                    det.gm = sk_GM_fit([det EXCEPT !.gm = None], TrainX, draw).self.gm

\* C4 witness: a second successful fit of a PCA has just returned.
C4_Witness ==
    /\ IsPCA
    /\ ret.op = "fit"
    /\ ret.raised = NoError
    /\ hist.fits >= 2

\* C7: after a successful fit whose training scores are pairwise distinct, the
\* number of training samples with score > threshold_ differs from fpr * n by
\* at most 1; at fpr = 0 no training sample is an outlier.
C7_TrainingOutliersNearFpr ==
    hist.lastOK =>
        /\ PairwiseDistinct(TrainScores) =>
              QLeq(QAbs(QSub(QInt(OutlierCount),
                             QMul(det.fpr, QInt(Len(TrainScores))))),
                   QInt(1))
        /\ det.fpr = QInt(0) => OutlierCount = 0

\* C7 witness: a fit with fpr = 1/4 on three rows with pairwise distinct
\* scores has returned, and one training sample is an outlier.
C7_Witness ==
    /\ hist.lastOK
    /\ ret.op = "fit"
    /\ det.fpr = <<1, 4>>
    /\ Len(TrainScores) = 3
    /\ PairwiseDistinct(TrainScores)
    /\ OutlierCount = 1

\* C8: a successful fit(X, y) returns the instance it was called on, and the
\* state it leaves is the state fit(X, None) leaves, whatever y was.
C8_FitReturnsSelfIgnoringY ==
    (ret.op = "fit" /\ ret.raised = NoError) =>
        /\ ret.value = "self"
        /\ IsPCA => det = PCA_fit(det, TrainX, None).self
        /\ IsGMM => \E draw \in 0..(RngPeriod - 1) :
                       det = GMM_fit(det, TrainX, None, draw).self

\* C8 witness: a fit that was given a y has returned normally.
C8_Witness ==
    /\ ret.op = "fit"
    /\ ret.raised = NoError
    /\ ret.y # None

\* C9: on a fitted PCA, anomaly_score() returns the scores anomaly_score(X)
\* returns for the matrix of the most recent successful fit.
C9_DefaultIsLastTrainingMatrix ==
    (IsPCA /\ EverFitted /\ ret.op = "anomaly_score()") =>
        /\ ret.raised = NoError
        /\ ret.out = PCA_anomaly_score(det, hist.train).value

\* C10: a second GaussianMixtureOutlierDetector built with the same
\* constructor arguments and fitted on the same matrix ends with the same
\* fitted parameters and the same threshold_, whatever state the
\* process-global random generator was in at either fit.
C10_FitIsReproducible ==
    (ret.op = "twin.fit" /\ ret.raised = NoError) =>
        /\ twin.gm = det.gm
        /\ twin.threshold_ = det.threshold_

\* ================================================ datasets (datasets/base.py)
NEG_LABEL == -1
POS_LABEL == 1

\* One more than the greatest value the random generator of a loader yields.
LoaderDraws == 21

\* ---- numpy on vectors; positions count from 1
Iota(n) == [i \in 1..n |-> i]
Range(a) == {a[i] : i \in 1..Len(a)}
\* np.flatnonzero(b): the positions at which b holds, ascending.
np_flatnonzero(b) == SelectSeq(Iota(Len(b)), LAMBDA i : b[i])
\* np.union1d(a, b): the sorted union without repetition, of positions.
np_union1d(a, b) ==
    LET S == Range(a) \cup Range(b)
        n == IF S = {} THEN 0 ELSE CHOOSE m \in S : \A k \in S : k <= m
    IN  SelectSeq(Iota(n), LAMBDA i : i \in S)
\* np.unique(y): the sorted distinct values of y; class labels are digits.
np_unique(y) == SelectSeq([c \in 1..10 |-> c - 1], LAMBDA c : c \in Range(y))
\* a[:n]
Take(a, n) == SubSeq(a, 1, Min2(n, Len(a)))
\* a[s] for a vector of positions s
Index(a, s) == [j \in 1..Len(s) |-> a[s[j]]]
\* a without the element at position k
DropAt(a, k) == SubSeq(a, 1, k - 1) \o SubSeq(a, k + 1, Len(a))

\* rnd.choice(a, size=size, replace=False): size distinct elements of a, which
\* ones being decided by what the generator yields (draw); the order does not
\* matter to the callers, which pass the result to np.union1d. More elements
\* asked for than there are is a ValueError.
RECURSIVE Thin(_, _, _)
Thin(a, size, draw) ==
    IF Len(a) <= size THEN a
    ELSE Thin(DropAt(a, (draw % Len(a)) + 1), size, draw \div Len(a))

\* A choice with replacement: the same element may be drawn again.
rnd_choice_with_replacement(a, size, draw) ==
    IF Len(a) < 1 THEN [raised |-> "ValueError", value |-> <<>>]
    ELSE [raised |-> NoError,
          value  |-> [j \in 1..size |-> a[((draw * j) % Len(a)) + 1]]]

rnd_choice(a, size, draw) ==
    IF Len(a) < size THEN [raised |-> "ValueError", value |-> <<>>]
    ELSE [raised |-> NoError, value |-> Thin(a, size, draw)]

\* ---- the data files
\* A file is its column of class labels; row i of its feature columns is
\* written <<name, i>>, which tells rows apart and nothing else.
Features(name, y) == [i \in 1..Len(y) |-> <<name, i>>]
\* Ten digit classes, per samples of each, one class after the other or in
\* turns.
Digits(per, order) ==
    [i \in 1..(10 * per) |->
        IF order = "blocks" THEN (i - 1) \div per ELSE (i - 1) % 10]
\* load_breast_cancer: 0 is malignant, 1 is benign.
Cancer(malignant, benign, order) ==
    [i \in 1..(malignant + benign) |->
        IF order = "blocks"
        THEN (IF i <= malignant THEN 0 ELSE 1)
        ELSE (IF i <= benign THEN 1 ELSE 0)]
Orders == {"blocks", "turns"}
FileSets ==
    {[y_tra  |-> Digits(a, o),
      y_tes  |-> Digits(b, o),
      y_wdbc |-> Cancer(m, 3, o)] :
        a \in {10, 11}, b \in {9, 10}, m \in {9, 11}, o \in Orders}

\* What a loader hands back: a Bunch(data, target), or the pair (data, target)
\* when return_X_y is set.
Loaded(X, y, return_X_y) ==
    [raised |-> NoError, form |-> IF return_X_y THEN "tuple" ELSE "Bunch",
     data |-> X, target |-> y]
LoadFailed(e) == [raised |-> e, form |-> "none", data |-> <<>>, target |-> <<>>]

\* The labels after y[~is_outlier] = POS_LABEL; y[is_outlier] = NEG_LABEL.
Relabel(y, is_outlier) ==
    [i \in 1..Len(y) |-> IF is_outlier[i] THEN NEG_LABEL ELSE POS_LABEL]

\* The positions kept by subset 'goldstein12-global': the loop over the rows
\* of boolarr, row i (from 0) being the samples of the i-th class found; all
\* of row 8, the first n_outliers_per_class of every other row.
RECURSIVE GlobalKept(_, _, _)
GlobalKept(boolarr, i, s) ==
    IF i > Len(boolarr) THEN s
    ELSE LET idx == np_flatnonzero(boolarr[i])
         IN  GlobalKept(boolarr, i + 1,
                        IF i - 1 = 8 THEN np_union1d(s, idx)
                        ELSE np_union1d(s, Take(idx, 10)))

\* load_pendigits(random_state, return_X_y, subset); draw is what the
\* generator made from random_state yields.
load_pendigits(files, draw, return_X_y, subset) ==
    IF subset \notin {"goldstein12-global", "goldstein12-local", "kriegel11"}
    THEN LoadFailed("ValueError")
    ELSE
    LET X == IF subset = "kriegel11"
             THEN Features("tra", files.y_tra) \o Features("tes", files.y_tes)
             ELSE Features("tra", files.y_tra)
        y == IF subset = "kriegel11" THEN files.y_tra \o files.y_tes
             ELSE files.y_tra
        classes == np_unique(y)
        boolarr == [k \in 1..Len(classes) |->
                       [i \in 1..Len(y) |-> y[i] = classes[k]]]
        is_outlier == IF subset = "goldstein12-global" THEN boolarr[8 + 1]
                      ELSE [i \in 1..Len(y) |-> y[i] = 4]
        idx_inlier  == np_flatnonzero([i \in 1..Len(y) |-> ~is_outlier[i]])
        idx_outlier == np_flatnonzero(is_outlier)
        chosen == rnd_choice(idx_outlier, 20, draw)
        s == IF subset = "goldstein12-global" THEN GlobalKept(boolarr, 1, <<>>)
             ELSE IF subset = "goldstein12-local"
             THEN np_union1d(idx_inlier, Take(idx_outlier, 10))
             ELSE np_union1d(idx_inlier, chosen.value)
    IN  IF subset = "kriegel11" /\ chosen.raised # NoError
        THEN LoadFailed(chosen.raised)
        ELSE Loaded(Index(X, s), Index(Relabel(y, is_outlier), s), return_X_y)

\* load_wdbc(random_state, return_X_y, subset): only the malignant samples
\* are relabelled, the benign ones carry 1 in the file.
load_wdbc(files, draw, return_X_y, subset) ==
    LET X == Features("wdbc", files.y_wdbc)
        y0 == files.y_wdbc
        is_outlier  == [i \in 1..Len(y0) |-> y0[i] = 0]
        idx_inlier  == np_flatnonzero([i \in 1..Len(y0) |-> ~is_outlier[i]])
        idx_outlier == np_flatnonzero(is_outlier)
        y == [i \in 1..Len(y0) |-> IF is_outlier[i] THEN NEG_LABEL ELSE y0[i]]
        chosen == rnd_choice(idx_outlier, 10, draw)
        s == IF subset = "goldstein12"
             THEN np_union1d(idx_inlier, Take(idx_outlier, 10))
             ELSE np_union1d(idx_inlier, chosen.value)
    IN  IF subset \notin {"goldstein12", "kriegel11", "sugiyama13"}
        THEN LoadFailed("ValueError")
        ELSE IF subset = "kriegel11" /\ chosen.raised # NoError
        THEN LoadFailed(chosen.raised)
        ELSE IF subset # "sugiyama13"
        THEN Loaded(Index(X, s), Index(y, s), return_X_y)
        ELSE Loaded(X, y, return_X_y)

\* ---- the loaders as calls
PendigitsSubsets == {"goldstein12-global", "goldstein12-local", "kriegel11", "other"}
WdbcSubsets == {"goldstein12", "kriegel11", "sugiyama13", "other"}

InitLoad ==
    /\ det = NoDetector
    /\ twin = NoDetector
    /\ ret = NoRet
    /\ hist = NoHist
    /\ em = NoEM
    /\ \E files \in FileSets : load = [op |-> "", files |-> files]

LoadPendigits ==
    \E draw \in 0..(LoaderDraws - 1), return_X_y \in BOOLEAN,
       subset \in PendigitsSubsets :
        /\ load.op = ""
        /\ \E r \in {load_pendigits(load.files, draw, return_X_y, subset)} :
               load' = [op |-> "load_pendigits", files |-> load.files,
                        subset |-> subset, out |-> r]
        /\ UNCHANGED <<det, twin, ret, hist, em>>

LoadWdbc ==
    \E draw \in 0..(LoaderDraws - 1), return_X_y \in BOOLEAN,
       subset \in WdbcSubsets :
        /\ load.op = ""
        /\ \E r \in {load_wdbc(load.files, draw, return_X_y, subset)} :
               load' = [op |-> "load_wdbc", files |-> load.files,
                        subset |-> subset, out |-> r]
        /\ UNCHANGED <<det, twin, ret, hist, em>>

\* The caller takes what the loader returned.
LoadReturn ==
    /\ load.op \notin {"", "none"}
    /\ load' = [op |-> "", files |-> load.files]
    /\ UNCHANGED <<det, twin, ret, hist, em>>

NextLoad ==
    \/ LoadPendigits
    \/ LoadWdbc
    \/ LoadReturn

SpecLoad == InitLoad /\ [][NextLoad]_vars

\* ---- the claims about the loaders
\* The class a row of data has in the file it came from.
OwnClass(files, row) ==
    IF row[1] = "tra" THEN files.y_tra[row[2]]
    ELSE IF row[1] = "tes" THEN files.y_tes[row[2]]
    ELSE files.y_wdbc[row[2]]
\* The positions of the returned data whose row is of class c.
KeptOfClass(c) ==
    {j \in 1..Len(load.out.data) : OwnClass(load.files, load.out.data[j]) = c}
Returned(op, subset) ==
    load.op = op /\ load.subset = subset /\ load.out.raised = NoError

\* C11: load_pendigits(subset='goldstein12-global') returns every sample of
\* class 8 labelled +1 and exactly 10 samples of each other class labelled -1,
\* so the target holds exactly 90 labels -1.
C11_GlobalClass8IsInlier ==
    (load.op = "load_pendigits" /\ load.subset = "goldstein12-global") =>
        /\ load.out.raised = NoError
        /\ Cardinality(KeptOfClass(8)) =
              Cardinality({i \in 1..Len(load.files.y_tra) : load.files.y_tra[i] = 8})
        /\ \A j \in KeptOfClass(8) : load.out.target[j] = POS_LABEL
        /\ \A c \in (0..9) \ {8} :
              /\ Cardinality(KeptOfClass(c)) = 10
              /\ \A j \in KeptOfClass(c) : load.out.target[j] = NEG_LABEL
        /\ Cardinality({j \in 1..Len(load.out.target) :
                           load.out.target[j] = NEG_LABEL}) = 90

\* ============================================ the detectors, further claims
\* The number of features of every sample.
AllComponents == Len(Axes)

\* C12: after a successful fit of a PCA that retains all components,
\* reconstruct gives back the training matrix and the anomaly score of every
\* training sample is 0.
C12_AllComponentsRoundTrip ==
    (hist.lastOK /\ IsPCA /\ det.n_components = AllComponents) =>
        /\ PCA_reconstruct(det, TrainX).raised = NoError
        /\ PCA_reconstruct(det, TrainX).value =
              AsSeq([i \in 1..Len(TrainX) |-> AsSeq(QRow(TrainX[i]))])
        /\ \A i \in 1..Len(TrainScores) : TrainScores[i] = QInt(0)

\* C12 witness: a PCA retaining both components was fitted on rows that are
\* not all equal, and the fit has returned.
C12_Witness ==
    /\ hist.lastOK
    /\ IsPCA
    /\ ret.op = "fit"
    /\ det.n_components = AllComponents
    /\ \E i \in 1..Len(TrainX) : TrainX[i] # TrainX[1]

ScoringOps == {"anomaly_score", "anomaly_score()", "reconstruct", "score"}

\* C13: a scoring call on a detector that has been fitted (anomaly_score of
\* either detector, with or without X, reconstruct, score) leaves the
\* detector as it was: fitted parameters, X_, fpr and threshold_.
C13_ScoringIsPureRead ==
    [][(EverFitted /\ Idle /\ ret'.op \in ScoringOps) =>
           (det' = det /\ hist' = hist)]_vars

\* C13 witness: anomaly_score(X) of a fitted PCA has returned scores for a
\* matrix that is not the stored training matrix.
C13_Witness ==
    /\ IsPCA
    /\ EverFitted
    /\ ret.op = "anomaly_score"
    /\ ret.raised = NoError
    /\ IsSet(det.X_)
    /\ Len(ret.out) # Len(Get(det.X_))

\* ================================= GaussianMixture.fit, one step at a time
\* super().fit(X) of GaussianMixtureOutlierDetector.fit is the EM loop of
\* sklearn.mixture: check the parameters, initialise, then at most max_iter
\* iterations of E-step, M-step and lower bound, left early once the lower
\* bound changes by less than tol. As in sk_GM_estimate the responsibilities
\* are hard: a row belongs to the nearest component.

\* Most iterations a caller allows.
MaxIter == 3
MaxIters == 0..MaxIter
\* tol = 0 is never undercut; 1/1000 is the default.
Tols == {<<0, 1>>, <<1, 1000>>}
\* False positive rates of the fits followed step by step.
EMFprs == {<<0, 1>>, <<1, 4>>, <<3, 2>>}

sk_GM_parameters(comps) ==
    [weights_     |-> AsSeq([k \in 1..Len(comps) |-> comps[k].weight]),
     means_       |-> AsSeq([k \in 1..Len(comps) |-> comps[k].mean]),
     covariances_ |-> AsSeq([k \in 1..Len(comps) |-> comps[k].cov])]

\* E-step: the component of each row (the first of the nearest ones of
\* positive weight) and the lower bound, which is minus the summed squared
\* distances of the rows to their components.
sk_GM_e_step(X, gm) ==
    LET live == {k \in 1..Len(gm.weights_) : QLess(QInt(0), gm.weights_[k])}
        d(i, k) == SqDist(QRow(X[i]), gm.means_[k])
        near(i) == CHOOSE k \in live :
                      /\ \A l \in live : QLeq(d(i, k), d(i, l))
                      /\ \A l \in live : l < k => QLess(d(i, k), d(i, l))
        resp == AsSeq([i \in 1..Len(X) |-> near(i)])
    IN  [resp |-> resp,
         lower_bound |->
             QSub(QInt(0), QSum(AsSeq([i \in 1..Len(X) |-> d(i, resp[i])])))]

\* M-step: weights, means and covariances of the rows of each component.
sk_GM_m_step(X, resp, K) ==
    sk_GM_parameters(
        AsSeq([k \in 1..K |->
            Component(X, SelectRows(X, [i \in 1..Len(X) |-> resp[i] = k]))]))

\* abs(change) < tol, the lower bound before the first iteration being
\* -infinity (None).
sk_GM_converged(prev_lower_bound, lower_bound, tol) ==
    /\ IsSet(prev_lower_bound)
    /\ QLess(QAbs(QSub(lower_bound, Get(prev_lower_bound))), tol)

\* A loop exit that raises when the iterations did not converge.
sk_GM_after_loop_strict(converged) ==
    [raised |-> IF converged THEN NoError ELSE "ConvergenceWarning",
     warned |-> FALSE]

\* After the loop: warnings.warn(ConvergenceWarning) if not converged; a
\* warning is reported and execution goes on.
sk_GM_after_loop(converged) ==
    [raised |-> NoError, warned |-> ~converged]

\* ---- the fit as steps
\* em.pc is the position: "fit" (called), "loop" (in the EM loop), "after"
\* (the loop is left), "calibrate" (super().fit has returned), "done".
\* em.self is the detector, em.gm the parameters the loop holds.
InitEM ==
    /\ det = NoDetector
    /\ twin = NoDetector
    /\ ret = NoRet
    /\ hist = NoHist
    /\ load = NoLoad
    /\ \E fpr \in EMFprs, K \in GMM_NComponents, rs \in RandomStates,
          max_iter \in MaxIters, tol \in Tols, X \in Matrices :
       \E c \in {GMM_init(fpr, K, rs)} :
       \E g \in GlobalStates(c.self) :
           em = [pc |-> "fit", self |-> c.self, max_iter |-> max_iter,
                 tol |-> tol, X |-> X, draw |-> DrawOf(c.self, g),
                 n_iter |-> 0, lower_bound |-> None, converged |-> FALSE,
                 gm |-> None, warned |-> FALSE, raised |-> NoError]

\* check_array(X), then the checks of GaussianMixture.fit on the parameters
\* and the initialisation of the mixture.
EMStart ==
    /\ em.pc = "fit"
    /\ em' =
         IF check_array(em.X) # NoError
         THEN [em EXCEPT !.pc = "done", !.raised = check_array(em.X)]
         ELSE IF Len(em.X) < em.self.n_components \/ em.max_iter < 1
                 \/ QLess(em.tol, QInt(0))
         THEN [em EXCEPT !.pc = "done", !.raised = "ValueError"]
         ELSE [em EXCEPT !.pc = "loop",
                  !.gm = Some(sk_GM_parameters(
                      sk_GM_estimate(em.X, em.self.n_components, em.draw)))]
    /\ UNCHANGED <<det, twin, ret, hist, load>>

\* One pass of `for n_iter in range(max_iter)`.
EMIterate ==
    /\ em.pc = "loop"
    /\ em.n_iter < em.max_iter
    /\ \E e \in {sk_GM_e_step(em.X, Get(em.gm))} :
       \E conv \in {sk_GM_converged(em.lower_bound, e.lower_bound, em.tol)} :
           em' = [em EXCEPT
                     !.gm = Some(sk_GM_m_step(em.X, e.resp, em.self.n_components)),
                     !.lower_bound = Some(e.lower_bound),
                     !.n_iter = em.n_iter + 1,
                     !.converged = conv,
                     !.pc = IF conv \/ em.n_iter + 1 = em.max_iter
                            THEN "after" ELSE "loop"]
    /\ UNCHANGED <<det, twin, ret, hist, load>>

\* The loop is left: a warning if it did not converge, then the parameters
\* of the loop become the fitted parameters and super().fit returns.
EMFinish ==
    /\ em.pc = "after"
    /\ \E a \in {sk_GM_after_loop(em.converged)} :
           em' = IF a.raised # NoError
                 THEN [em EXCEPT !.pc = "done", !.raised = a.raised]
                 ELSE [em EXCEPT !.pc = "calibrate", !.warned = a.warned,
                                 !.self = [em.self EXCEPT !.gm = em.gm]]
    /\ UNCHANGED <<det, twin, ret, hist, load>>

\* scores = self.anomaly_score(X); threshold_ = np.percentile(...); return.
EMCalibrate ==
    /\ em.pc = "calibrate"
    /\ \E a \in {GMM_anomaly_score(em.self, em.X)} :
       \E q \in {QSub(QInt(1), em.self.fpr)} :
           em' = IF a.raised # NoError
                 THEN [em EXCEPT !.pc = "done", !.raised = a.raised]
                 ELSE IF ~PercentileValid(q)
                 THEN [em EXCEPT !.pc = "done", !.raised = "ValueError"]
                 ELSE [em EXCEPT !.pc = "done",
                          !.self = [em.self EXCEPT
                              !.threshold_ = Some(Percentile(a.value, q))]]
    /\ UNCHANGED <<det, twin, ret, hist, load>>

NextEM ==
    \/ EMStart
    \/ EMIterate
    \/ EMFinish
    \/ EMCalibrate

SpecEM == InitEM /\ [][NextEM]_vars

\* ---- the claim about the EM loop
\* The guards of the four steps: the fit is not stuck.
EMCanStep ==
    \/ em.pc = "fit"
    \/ em.pc = "loop" /\ em.n_iter < em.max_iter
    \/ em.pc = "after"
    \/ em.pc = "calibrate"

\* How many steps the fit can still take, at most.
EMVariant(e) ==
    IF e.pc = "fit" THEN e.max_iter + 3
    ELSE IF e.pc = "loop" THEN (e.max_iter - e.n_iter) + 2
    ELSE IF e.pc = "after" THEN 2
    ELSE IF e.pc = "calibrate" THEN 1
    ELSE 0

\* The loop has run max_iter iterations without converging.
EMCapReached ==
    /\ em.pc \in {"after", "calibrate", "done"}
    /\ em.max_iter >= 1
    /\ em.n_iter = em.max_iter
    /\ ~em.converged

\* C14: GaussianMixtureOutlierDetector.fit terminates: it is never stuck
\* before it is done, and every step brings it nearer to the end (the loop
\* runs at most max_iter iterations and is left only on convergence or at the
\* cap). Reaching the cap without convergence raises nothing: the parameters
\* of the last iteration are kept and, the false positive rate being in
\* [0, 1], fit returns normally with threshold_ calibrated on them.
C14_FitTerminatesCapIsNotFatal ==
    /\ [](em.pc = "done" \/ EMCanStep)
    /\ [][EMVariant(em') < EMVariant(em)]_vars
    /\ [](EMVariant(em) >= 0 /\ em.n_iter <= em.max_iter)
    /\ []((em.pc \in {"after", "calibrate", "done"} /\ em.n_iter >= 1) =>
              (em.converged \/ em.n_iter = em.max_iter))
    /\ []((em.pc = "done" /\ EMCapReached) =>
              /\ em.raised # "ConvergenceWarning"
              /\ em.self.gm = em.gm
              /\ InUnitInterval(em.self.fpr) =>
                    /\ em.raised = NoError
                    /\ em.self.threshold_ =
                          Some(Percentile(GMM_anomaly_score(em.self, em.X).value,
                                          QSub(QInt(1), em.self.fpr))))

\* C14 witness: a fit allowed two iterations or more has reached the cap
\* without converging, was warned, and is done with threshold_ set.
C14_Witness ==
    /\ em.pc = "done"
    /\ EMCapReached
    /\ em.max_iter >= 2
    /\ em.warned
    /\ em.raised = NoError
    /\ IsSet(em.self.threshold_)

\* ---- the claim about downsampling
\* The rows a loader reads for a subset.
SourceRows(op, subset) ==
    IF op = "load_wdbc" THEN Range(Features("wdbc", load.files.y_wdbc))
    ELSE IF subset = "kriegel11"
    THEN Range(Features("tra", load.files.y_tra))
             \cup Range(Features("tes", load.files.y_tes))
    ELSE Range(Features("tra", load.files.y_tra))

\* Subset `subset` of loader `op`, whose anomalous class is anom, keeps all
\* the other rows and n distinct rows of class anom when there are n, each
\* row with the label of its class, and no other label.
Downsampled(op, subset, anom, n) ==
    LET src  == SourceRows(op, subset)
        anoms == {r \in src : OwnClass(load.files, r) = anom}
        kept == Range(load.out.data)
    IN  (load.op = op /\ load.subset = subset /\ Cardinality(anoms) >= n) =>
            /\ load.out.raised = NoError
            /\ Len(load.out.data) = Len(load.out.target)
            /\ src \ anoms \subseteq kept
            /\ kept \subseteq src
            /\ Cardinality(kept \cap anoms) = n
            /\ Len(load.out.data) = Cardinality(kept)
            /\ \A j \in 1..Len(load.out.data) :
                  load.out.target[j] =
                      IF OwnClass(load.files, load.out.data[j]) = anom
                      THEN NEG_LABEL ELSE POS_LABEL

\* C15: the downsampling subsets keep every sample outside the anomalous
\* class and exactly n_outliers distinct samples of it (20 for pendigits
\* 'kriegel11', 10 for 'goldstein12-local' and for both subsets of wdbc), every
\* row with its own label, +1 for inliers and -1 for outliers.
C15_DownsamplingKeepsPairs ==
    /\ Downsampled("load_pendigits", "kriegel11", 4, 20)
    /\ Downsampled("load_pendigits", "goldstein12-local", 4, 10)
    /\ Downsampled("load_wdbc", "goldstein12", 0, 10)
    /\ Downsampled("load_wdbc", "kriegel11", 0, 10)

\* C15 witness: load_pendigits(subset='kriegel11') has returned 20 of the 21
\* samples of class 4 that the two files hold.
C15_Witness ==
    /\ Returned("load_pendigits", "kriegel11")
    /\ Cardinality(KeptOfClass(4)) = 20
    /\ Cardinality({r \in SourceRows("load_pendigits", "kriegel11") :
                       OwnClass(load.files, r) = 4}) = 21

====
